---- MODULE Spec2Model ----
\* Job registry (job_status_store), the request handlers that create, refine and
\* delete jobs, and the background Stage Runner tasks of src/app.py, together with
\* the workflow functions of src/workflow.py they await.
\*
\* One action is one run of a handler, or one stretch of a background task between
\* two suspension points (an await of Runner.run): asyncio runs such a stretch
\* without interleaving.
EXTENDS Integers, Sequences, FiniteSets, TLC

\* ------------------------------------------------------------------ bounds
MaxJobs == 2        \* ids handed out by uuid.uuid4() during a run
MaxTasks == 2       \* background tasks dispatched during a run
MaxCalls == 3       \* Runner.run invocations the tasks of a run can make
MaxSel == 1         \* length of the job_ids list of a generate request, and its
                    \* largest index
MaxBatch == 3       \* length of the list handed to enrich_jobs_with_urls
MaxPick == 2        \* postings of the linked search job; length and largest entry
                    \* of job_ids when a generation runs against it
MaxSkills == 3      \* length of the skills list of a posting handed to score_job_match
MaxParts == 3       \* parts (host, path, query, note) a link is put together from

\* ------------------------------------------------------------- value space
None == "None"      \* Python None in a string-valued field
NoId == 0           \* Python None as search_id
NoCount == -1       \* a count key that is not in the record
TS == "ts"          \* datetime.now().isoformat(): some non-null string

Ids == 1..MaxJobs
Msgs == {"e1"}                  \* str(e) of an exception raised by a collaborator
SaveMsgs == {"oserror"}         \* str(e) of a failure while writing files

SeqsUpTo(S, n) == UNION { [1..k -> S] : k \in 0..n }

\* the job_ids of a generate request: membership is all the code asks of the list,
\* so its order is fixed here; an index may repeat
JobIdLists ==
    { sel \in SeqsUpTo(0..MaxSel, MaxSel) :
        \A k \in 1..(Len(sel) - 1) : sel[k] <= sel[k + 1] }

\* what an awaited Runner.run for one application can do: return materials,
\* return nothing, raise; "save_raise" is materials returned and
\* save_application_materials raising
GenOutcomes ==
    { [kind |-> "ok", msg |-> None], [kind |-> "none", msg |-> None] }
    \cup { [kind |-> "raise", msg |-> m] : m \in Msgs }
    \cup { [kind |-> "save_raise", msg |-> m] : m \in SaveMsgs }

\* what an awaited Runner.run of a writer session can do
WriterOutcomes ==
    { [kind |-> "ok", msg |-> None], [kind |-> "none", msg |-> None] }
    \cup { [kind |-> "raise", msg |-> m] : m \in Msgs }

\* ------------------------------------------------------------------- links
\* A str is the sequence of its pieces. The pieces are cut so that each text the
\* code looks for is a run of whole pieces and can occur nowhere else: `p in s`
\* is then "p is a run of consecutive pieces of s".
Contains(s, p) ==
    \E i \in 0..(Len(s) - Len(p)) : \A k \in 1..Len(p) : s[i + k] = p[k]

\* str.lower(), piece by piece
LowerPiece(a) ==
    CASE a = "Indeed" -> "indeed"
      [] a = "See " -> "see "
      [] a = "Data" -> "data"
      [] a = "Scientist" -> "scientist"
      [] a = "Engineer" -> "engineer"
      [] a = "Netherlands" -> "netherlands"
      [] a = "English" -> "english"
      [] a = "Dutch" -> "dutch"
      [] a = "Glassdoor" -> "glassdoor"
      [] a = "Vacatures" -> "vacatures"
      [] a = "Job" -> "job"
      [] a = "JL=" -> "jl="
      [] OTHER -> a

Lower(s) == [k \in 1..Len(s) |-> LowerPiece(s[k])]

URL_NOT_AVAILABLE == <<"URL_NOT_AVAILABLE">>

\* the piece "ellipsis" is the one character U+2026
invalid_patterns ==
    { <<"/", "vacatures">>, <<"/", "job", "s", "-", "srch">>, <<"job", "s", "?", "q=">>,
      <<"search", "/", "job", "s">>, <<"ellipsis">>, <<"see ", "listing">>,
      <<"see ", "job">> }

placeholder_ids == {"123456", "654321", "789012", "345678", "901234", "567890"}

valid_patterns ==
    { <<"indeed", ".", "com", "/", "view", "job", "?", "jk=">>,
      <<"indeed", ".", "com", "/", "rc", "/", "clk", "?", "jk=">>,
      <<"glassdoor", ".", "com", "/", "job", "-", "listing", "/">>,
      <<"linkedin", ".", "com", "/", "job", "s", "/", "view", "/">>,
      <<"career", "s", ".">>, <<"/", "career", "/">>, <<"/", "job", "s", "/">> }

job_boards ==
    { <<"indeed", ".", "com">>, <<"glassdoor", ".", "com">>, <<"linkedin", ".", "com">> }

\* parse_qs(urlparse(url).query).get('jl', [None])[0]: the value of the first jl
\* parameter that has one, as the set of its positions; the query starts after the
\* first "?" and its parameters are separated by "&"
QueryStart(url) ==
    IF \E k \in 1..Len(url) : url[k] = "?"
    THEN CHOOSE k \in 1..Len(url) : url[k] = "?" /\ \A j \in 1..(k - 1) : url[j] # "?"
    ELSE Len(url)

JlKeys(url) ==
    { k \in (QueryStart(url) + 1)..(Len(url) - 1) :
        /\ url[k] = "jl="
        /\ (k = QueryStart(url) + 1 \/ url[k - 1] = "&")
        /\ url[k + 1] # "&" }

\* job_id in placeholder_ids
HasPlaceholderId(url) ==
    /\ JlKeys(url) # {}
    /\ LET k == CHOOSE k \in JlKeys(url) : \A j \in JlKeys(url) : k <= j
       IN  /\ url[k + 1] \in placeholder_ids
           /\ (k + 2 > Len(url) \/ url[k + 2] = "&")

is_valid_job_url_caseSensitive(url) ==
    IF url = <<>> \/ url = URL_NOT_AVAILABLE THEN FALSE
    ELSE LET url_lower == Lower(url) IN
         IF \E p \in invalid_patterns : Contains(url, p) THEN FALSE
         ELSE IF Contains(url_lower, <<"glassdoor", ".", "com">>) /\ HasPlaceholderId(url)
         THEN FALSE
         ELSE IF \E p \in valid_patterns : Contains(url_lower, p) THEN TRUE
         ELSE IF \E b \in job_boards : Contains(url_lower, b) THEN FALSE
         ELSE TRUE

is_valid_job_url(url) ==
    IF url = <<>> \/ url = URL_NOT_AVAILABLE THEN FALSE
    ELSE LET url_lower == Lower(url) IN
         IF \E p \in invalid_patterns : Contains(url_lower, p) THEN FALSE
         ELSE IF Contains(url_lower, <<"glassdoor", ".", "com">>) /\ HasPlaceholderId(url)
         THEN FALSE
         ELSE IF \E p \in valid_patterns : Contains(url_lower, p) THEN TRUE
         ELSE IF \E b \in job_boards : Contains(url_lower, b) THEN FALSE
         ELSE TRUE

\* links of the postings and items below
UrlCareers == <<"https://", "career", "s", ".", "acme", ".", "com", "/", "42">>
UrlIndeedSearch ==
    <<"https://", "nl", ".", "Indeed", ".", "com", "/", "job", "s", "?", "q=", "x">>
UrlGlassdoorSearch ==
    <<"https://", "www", ".", "glassdoor", ".", "com", "/", "Job", "/", "x", "-", "job",
      "s", "-", "SRCH_IL", ".", "htm">>
UrlLinkedinSearch ==
    <<"https://", "linkedin", ".", "com", "/", "search", "/", "job", "s">>

\* postings the Content Generator can return; the booleans are the outcomes of the
\* substring tests of score_job_match on the posting's text
PostingA ==
    [company |-> "A", role |-> TRUE, loc |-> TRUE, lang |-> FALSE, nskills |-> 3,
     url |-> UrlCareers]
PostingB ==
    [company |-> "B", role |-> FALSE, loc |-> TRUE, lang |-> TRUE, nskills |-> 1,
     url |-> UrlIndeedSearch]

\* the lists of n postings a search can return: A, B, A, ... and B, A, B, ...
JobLists(n) ==
    { [k \in 1..n |-> IF k % 2 = 1 THEN PostingA ELSE PostingB],
      [k \in 1..n |-> IF k % 2 = 1 THEN PostingB ELSE PostingA] }

\* the registry and the background tasks of src/app.py
VARIABLES job_status_store, nextId, tasks

\* one call of enrich_jobs_with_urls: the module flag, the list it is handed (a
\* list of references), the dictionaries the references point to, and the frame
\* of the call
VARIABLES PLAYWRIGHT_AVAILABLE, jobs_in, dicts, call

registry == <<job_status_store, nextId, tasks>>

enrichment == <<PLAYWRIGHT_AVAILABLE, jobs_in, dicts, call>>

vars == <<job_status_store, nextId, tasks, PLAYWRIGHT_AVAILABLE, jobs_in, dicts, call>>

\* the frame of a call: where it is (pc), its locals, the list it returned, the
\* functions an exception has left on its way out, and two things nothing reads:
\* the dictionaries as they were on entry, and a log of what the call did
NewCall(pc) ==
    [pc |-> pc, enriched_jobs |-> <<>>, jobs_to_scrape |-> <<>>, pos |-> 0,
     returned |-> <<>>, escaped |-> <<>>, entry |-> <<>>, results |-> <<>>,
     log |-> <<>>, source_url |-> <<>>]

\* nothing in the repository calls enrich_jobs_with_urls
NotCalled ==
    /\ PLAYWRIGHT_AVAILABLE = TRUE
    /\ jobs_in = <<>>
    /\ dicts = <<>>
    /\ call = NewCall("not_called")

\* ------------------------------------------------------------ pure helpers
Min(a, b) == IF a < b THEN a ELSE b
Max(a, b) == IF a > b THEN a ELSE b

score_job_match(job) ==
    LET s1 == IF job.role THEN 40 ELSE 0
        s2 == IF job.loc THEN 20 ELSE 0
        s3 == IF job.lang THEN 20 ELSE 0
        s4 == IF job.nskills >= 3 THEN 20 ELSE IF job.nskills >= 1 THEN 10 ELSE 0
    IN  Min(100, Max(0, s1 + s2 + s3 + s4))

\* job.model_dump() with match_score set
ScoredJob(job) ==
    [company |-> job.company, role |-> job.role, loc |-> job.loc, lang |-> job.lang,
     nskills |-> job.nskills, url |-> job.url, match_score |-> score_job_match(job)]

jobs_with_scores(jobs) == [k \in 1..Len(jobs) |-> ScoredJob(jobs[k])]

\* the dictionaries a workflow function returns
FailureResult(m) ==
    [success |-> FALSE, error |-> m, job_count |-> 0, applications_generated |-> 0,
     job_postings |-> <<>>, applications |-> <<>>]

Successes(apps) == { k \in 1..Len(apps) : apps[k].success }

FullRunResult(jobs, apps) ==
    [success |-> TRUE, error |-> None, job_count |-> Len(jobs),
     applications_generated |-> Cardinality(Successes(apps)),
     job_postings |-> jobs, applications |-> apps]

SearchOnlyResult(jobs) ==
    [success |-> TRUE, error |-> None, job_count |-> Len(jobs),
     applications_generated |-> 0, job_postings |-> jobs, applications |-> <<>>]

GenerationResult(apps) ==
    [success |-> TRUE, error |-> None, job_count |-> 0,
     applications_generated |-> Cardinality(Successes(apps)),
     job_postings |-> <<>>, applications |-> apps]

\* the loop without its "if materials" test
ApplicationEntry_noMaterialsTest(job, out) ==
    IF out.kind \in {"ok", "none"}
    THEN [success |-> TRUE, company |-> job.company, error |-> None]
    ELSE [success |-> FALSE, company |-> job.company, error |-> out.msg]

\* the entry one pass of the generation loop appends to application_results
ApplicationEntry(job, out) ==
    IF out.kind = "ok"
    THEN [success |-> TRUE, company |-> job.company, error |-> None]
    ELSE IF out.kind = "none"
    THEN [success |-> FALSE, company |-> job.company,
          error |-> "Failed to generate materials"]
    ELSE [success |-> FALSE, company |-> job.company, error |-> out.msg]

\* ---------------------------------------------------------- registry records
\* hist is not a key of the record: it lists the values the record's status has
\* been given, in order, and no action reads it
\* a create handler writing a start time into the new record
NewRecord_started(type, search_id, sel) ==
    [type |-> type, status |-> "pending", started_at |-> TS, completed_at |-> None,
     error |-> None, jobs_found |-> NoCount, applications_generated |-> NoCount,
     results |-> <<>>, search_id |-> search_id, selected_job_ids |-> sel,
     agent |-> FALSE, materials |-> <<>>, hist |-> <<"pending">>]

NewRecord(type, search_id, sel) ==
    [type |-> type, status |-> "pending", started_at |-> None, completed_at |-> None,
     error |-> None, jobs_found |-> NoCount, applications_generated |-> NoCount,
     results |-> <<>>, search_id |-> search_id, selected_job_ids |-> sel,
     agent |-> FALSE, materials |-> <<>>, hist |-> <<"pending">>]

MarkRunning(rec) ==
    [rec EXCEPT !.status = "running", !.started_at = TS, !.hist = Append(@, "running")]

MarkRunningRefine(rec) == [rec EXCEPT !.status = "running", !.hist = Append(@, "running")]

\* job_status_store[session_id]["status"] = "pending" in refine_writer_materials
ResetPending(rec) == [rec EXCEPT !.status = "pending", !.hist = Append(@, "pending")]

\* the handler forgetting completed_at
FailedUpdate_noCompletedAt(rec, m) ==
    [rec EXCEPT !.status = "failed", !.error = m, !.hist = Append(@, "failed")]

\* the handler forgetting the status
FailedUpdate_keepsStatus(rec, m) == [rec EXCEPT !.completed_at = TS, !.error = m]

FailedUpdate(rec, m) ==
    [rec EXCEPT !.status = "failed", !.completed_at = TS, !.error = m,
                !.hist = Append(@, "failed")]

WorkflowCompleted(rec, result) ==
    [rec EXCEPT !.status = "completed", !.completed_at = TS,
                !.jobs_found = result.job_count,
                !.applications_generated = result.applications_generated,
                !.results = <<result>>, !.hist = Append(@, "completed")]

SearchCompleted(rec, result) ==
    [rec EXCEPT !.status = "completed", !.completed_at = TS,
                !.jobs_found = result.job_count, !.results = <<result>>,
                !.hist = Append(@, "completed")]

GenerationCompleted(rec, result) ==
    [rec EXCEPT !.status = "completed", !.completed_at = TS,
                !.applications_generated = result.applications_generated,
                !.results = <<result>>, !.hist = Append(@, "completed")]

WriterCompleted(rec, mat) ==
    [rec EXCEPT !.status = "completed", !.completed_at = TS, !.agent = TRUE,
                !.materials = <<mat>>, !.hist = Append(@, "completed")]

RefineCompleted(rec, mat) ==
    [rec EXCEPT !.status = "completed", !.completed_at = TS, !.materials = <<mat>>,
                !.hist = Append(@, "completed")]

\* ------------------------------------------------------------------- tasks
\* a background task: its function, its arguments (id, sel), its position (pc), the
\* locals of the workflow function it awaits (jobs, i, apps), and a log nothing
\* reads: found (what its search returned), calls (the Runner.run invocations it
\* made), outs (what each returned), raised (the exception its handler caught)
NewTask(fn, id, sel) ==
    [fn |-> fn, id |-> id, sel |-> sel, pc |-> "queued", found |-> <<>>,
     jobs |-> <<>>, i |-> 0,
     apps |-> <<>>, calls |-> <<>>, outs |-> <<>>, raised |-> None]

TaskIds == 1..Len(tasks)

\* a task whose job is out of the registry can write nothing that is read: what it
\* collects and its log are not kept
Orphan(tk) == [tk EXCEPT !.apps = <<>>, !.calls = <<>>, !.outs = <<>>]

\* and once it has ended its locals are gone
Forget(tk) ==
    [tk EXCEPT !.jobs = <<>>, !.i = 0, !.apps = <<>>, !.calls = <<>>, !.outs = <<>>,
               !.raised = None]

Init ==
    /\ job_status_store = << >>
    /\ nextId = 0
    /\ tasks = << >>
    /\ NotCalled

\* results.get("job_postings", []) of a record's results.get-with-default
StoredPostings(rec) == IF rec.results = <<>> THEN <<>> ELSE rec.results[1].job_postings

RECURSIVE FilterFrom(_, _, _)
FilterFrom(all, sel, k) ==
    IF k > Len(all) THEN <<>>
    ELSE IF \E j \in 1..Len(sel) : sel[j] = k - 1
         THEN <<all[k]>> \o FilterFrom(all, sel, k + 1)
         ELSE FilterFrom(all, sel, k + 1)

\* the posting of every entry of selected_job_ids, in the order of that list
SelectJobs_perId(all, sel) ==
    LET InRange(i) == i + 1 <= Len(all)
        ids == SelectSeq(sel, InRange)
    IN  [k \in 1..Len(ids) |-> all[ids[k] + 1]]

\* [job for i, job in enumerate(all_job_postings) if str(i) in selected_job_ids]
SelectJobs(all, sel) == FilterFrom(all, sel, 1)

\* the test that guards the lookup of the linked search job
SearchIdUsable(st, search_id) == search_id # NoId /\ search_id \in DOMAIN st

\* a test that takes any record carrying a type for a session
RefineAllowed_typed(rec) == rec.type # None

\* refine_writer_materials without its test of the type
RefineAllowed_anyType(rec) == TRUE

\* the test refine_writer_materials makes on the record it found
RefineAllowed(rec) == rec.type = "writer_session"

\* the runner marking the linked search job as well as its own
StartedStore_touchLinked(st, id) ==
    LET own == [st EXCEPT ![id] = MarkRunning(@)] IN
    IF st[id].search_id \in DOMAIN st \ {id}
    THEN [own EXCEPT ![st[id].search_id] = MarkRunning(@)]
    ELSE own

\* job_status_store[id]["status"] = "running"; ...["started_at"] = now
StartedStore(st, id) == [st EXCEPT ![id] = MarkRunning(@)]

\* ------------------------------------------------------- request handlers
\* the Runner.run invocations a task can make: one for each posting of a generation
\* loop, one for a search, a writer initialization or a refinement
Committed(tk) ==
    CASE tk.fn = "run_workflow_task" -> 1 + Len(tk.found)
      [] tk.fn = "run_application_generation_task" -> Len(tk.sel)
      [] OTHER -> 1

RECURSIVE CommittedBy(_)
CommittedBy(ts) ==
    IF ts = <<>> THEN 0 ELSE Committed(Head(ts)) + CommittedBy(Tail(ts))

\* invocations of the run's bound that no dispatched task can claim
CallsLeft == MaxCalls - CommittedBy(tasks)

CanDispatch(tk) ==
    Len(tasks) < MaxTasks /\ Committed(tk) <= CallsLeft

Create(type, search_id, sel, fn) ==
    /\ nextId < MaxJobs
    /\ CanDispatch(NewTask(fn, nextId + 1, sel))
    /\ nextId' = nextId + 1
    /\ job_status_store' =
         job_status_store @@ ((nextId + 1) :> NewRecord(type, search_id, sel))
    /\ tasks' = Append(tasks, NewTask(fn, nextId + 1, sel))
    /\ UNCHANGED enrichment

trigger_workflow == Create(None, NoId, <<>>, "run_workflow_task")

search_jobs == Create("job_search", NoId, <<>>, "run_job_search_task")

generate_applications ==
    \E search_id \in {NoId} \cup 1..nextId, sel \in JobIdLists :
        Create("application_generation", search_id, sel,
               "run_application_generation_task")

start_writer_session ==
    Create("writer_session", NoId, <<>>, "run_writer_initialization_task")

refine_writer_materials ==
    \E id \in Ids :
        IF id \notin DOMAIN job_status_store
        THEN UNCHANGED vars                    \* HTTPException 404
        ELSE IF ~RefineAllowed(job_status_store[id])
        THEN UNCHANGED vars                    \* HTTPException 400
        ELSE /\ CanDispatch(NewTask("run_writer_refinement_task", id, <<>>))
             /\ job_status_store' = [job_status_store EXCEPT ![id] = ResetPending(@)]
             /\ tasks' = Append(tasks, NewTask("run_writer_refinement_task", id, <<>>))
             /\ UNCHANGED <<nextId, enrichment>>

\* a delete that empties the registry
Deleted_all(st, id) == << >>

\* del job_status_store[job_id]
Deleted(st, id) == [k \in DOMAIN st \ {id} |-> st[k]]

cleanup_job ==
    \E id \in Ids :
        IF id \notin DOMAIN job_status_store
        THEN UNCHANGED vars                    \* HTTPException 404
        ELSE /\ job_status_store' = Deleted(job_status_store, id)
             /\ tasks' = [t \in DOMAIN tasks |->
                            IF tasks[t].id # id THEN tasks[t]
                            ELSE IF tasks[t].pc = "done" THEN Forget(tasks[t])
                            ELSE Orphan(tasks[t])]
             /\ UNCHANGED <<nextId, enrichment>>

\* ------------------------------------------------------- Stage Runner steps
Kept(tk) == IF tk.id \in DOMAIN job_status_store THEN tk ELSE Orphan(tk)

\* an except-handler that assigns a fresh record to the key
Raise_recreates(t, tk, st, m) ==
    /\ job_status_store' =
         IF tk.id \in DOMAIN st THEN [st EXCEPT ![tk.id] = FailedUpdate(@, m)]
         ELSE (tk.id :> FailedUpdate(NewRecord("job_search", NoId, <<>>), m)) @@ st
    /\ tasks' = [tasks EXCEPT ![t] = [tk EXCEPT !.pc = "done", !.raised = m]]

\* the except-handler of a Stage Runner, entered with exception message m while the
\* registry is st: it updates the record, and that update raises KeyError out of
\* the task when the record is gone
Raise(t, tk, st, m) ==
    /\ job_status_store' =
         IF tk.id \in DOMAIN st THEN [st EXCEPT ![tk.id] = FailedUpdate(@, m)] ELSE st
    /\ tasks' = [tasks EXCEPT ![t] =
                   IF tk.id \in DOMAIN st
                   THEN [tk EXCEPT !.pc = "done", !.raised = m]
                   ELSE Forget([tk EXCEPT !.pc = "crashed"])]

\* the update({...}) that ends the try block of runner fn, x being the result of
\* the workflow function or the materials of the writer
CompletedUpdate(fn, rec, x) ==
    CASE fn = "run_workflow_task" -> WorkflowCompleted(rec, x)
      [] fn = "run_job_search_task" -> SearchCompleted(rec, x)
      [] fn = "run_application_generation_task" -> GenerationCompleted(rec, x)
      [] fn = "run_writer_initialization_task" -> WriterCompleted(rec, x)
      [] fn = "run_writer_refinement_task" -> RefineCompleted(rec, x)

\* a runner that returns without its final update
Settle_noUpdate(t, tk, st, x) ==
    /\ job_status_store' = st
    /\ tasks' = [tasks EXCEPT ![t] = [tk EXCEPT !.pc = "done"]]

\* the final update({...}) of the try block; KeyError when the record is gone
Settle(t, tk, st, x) ==
    IF tk.id \in DOMAIN st
    THEN /\ job_status_store' = [st EXCEPT ![tk.id] = CompletedUpdate(tk.fn, @, x)]
         /\ tasks' = [tasks EXCEPT ![t] = [tk EXCEPT !.pc = "done"]]
    ELSE Raise(t, tk, st, "KeyError")

Queued(t, fn) == tasks[t].fn = fn /\ tasks[t].pc = "queued"

Awaiting(t, fn, pc) == tasks[t].fn = fn /\ tasks[t].pc = pc

\* an awaited search: Runner.run raises, or returns a list of postings, after
\* which save_job_postings may raise
\* the lists a search may return: a generation loop over one stays within the bound
SearchOutputs == UNION { JobLists(n) : n \in 0..CallsLeft }

SearchOutcomes ==
    { [kind |-> "raise", msg |-> m, jobs |-> <<>>] : m \in Msgs }
    \cup { [kind |-> "jobs", msg |-> None, jobs |-> js] : js \in SearchOutputs }
    \cup { [kind |-> "save_raise", msg |-> m, jobs |-> <<>>] : m \in SaveMsgs }

OutLog(out) == [kind |-> out.kind, msg |-> out.msg]

\* JobApplicationWorkflow(session_id=...) returns, or raises (no active profile)
CtorOutcomes == {None, "no_profile"}

\* run_workflow_task up to the await of the search
WorkflowStart(t) ==
    /\ Queued(t, "run_workflow_task")
    /\ LET tk == tasks[t] IN
       IF tk.id \notin DOMAIN job_status_store
       THEN Raise(t, tk, job_status_store, "KeyError")
       ELSE LET st == StartedStore(job_status_store, tk.id) IN
            \E c \in CtorOutcomes :
               IF c # None THEN Raise(t, tk, st, c)
               ELSE /\ job_status_store' = st
                    /\ tasks' = [tasks EXCEPT ![t] =
                          [tk EXCEPT !.pc = "await_search", !.calls = <<"search">>]]
    /\ UNCHANGED <<nextId, enrichment>>

\* run_once_for_api from the return of the search to the next await or the end
WorkflowSearchReturn(t) ==
    /\ Awaiting(t, "run_workflow_task", "await_search")
    /\ LET tk == tasks[t] IN
       \E out \in SearchOutcomes :
          LET tk1 == [tk EXCEPT !.found = out.jobs, !.outs = Append(@, OutLog(out))] IN
          IF out.kind # "jobs"
          THEN Settle(t, tk1, job_status_store,
                      FailureResult(out.msg))
          ELSE IF out.jobs = <<>>
          THEN Settle(t, tk1, job_status_store,
                      FailureResult("No jobs found"))
          ELSE LET js == jobs_with_scores(out.jobs) IN
               /\ tasks' = [tasks EXCEPT ![t] =
                     Kept([tk1 EXCEPT !.pc = "await_gen", !.jobs = js, !.i = 1,
                                !.calls = Append(@, js[1].company)])]
               /\ UNCHANGED job_status_store
    /\ UNCHANGED <<nextId, enrichment>>

\* one pass of the generation loop of run_once_for_api, and after the last pass the
\* rest of run_workflow_task
WorkflowGenReturn(t) ==
    /\ Awaiting(t, "run_workflow_task", "await_gen")
    /\ LET tk == tasks[t] IN
       \E out \in GenOutcomes :
          LET apps == Append(tk.apps, ApplicationEntry(tk.jobs[tk.i], out)) IN
          IF tk.i < Len(tk.jobs)
          THEN /\ tasks' = [tasks EXCEPT ![t] =
                     Kept([tk EXCEPT !.i = tk.i + 1, !.apps = apps, !.outs = Append(@, out),
                                !.calls = Append(@, tk.jobs[tk.i + 1].company)])]
               /\ UNCHANGED job_status_store
          ELSE Settle(t, [tk EXCEPT !.apps = apps, !.outs = Append(@, out)],
                      job_status_store,
                      FullRunResult(tk.jobs, apps))
    /\ UNCHANGED <<nextId, enrichment>>

\* run_job_search_task up to the await of the search
SearchStart(t) ==
    /\ Queued(t, "run_job_search_task")
    /\ LET tk == tasks[t] IN
       IF tk.id \notin DOMAIN job_status_store
       THEN Raise(t, tk, job_status_store, "KeyError")
       ELSE LET st == StartedStore(job_status_store, tk.id) IN
            \E c \in CtorOutcomes :
               IF c # None THEN Raise(t, tk, st, c)
               ELSE /\ job_status_store' = st
                    /\ tasks' = [tasks EXCEPT ![t] =
                          [tk EXCEPT !.pc = "await_search", !.calls = <<"search">>]]
    /\ UNCHANGED <<nextId, enrichment>>

\* run_job_search_only from the return of the search, and the rest of
\* run_job_search_task
SearchReturn(t) ==
    /\ Awaiting(t, "run_job_search_task", "await_search")
    /\ LET tk == tasks[t] IN
       \E out \in SearchOutcomes :
          LET result == IF out.kind # "jobs" THEN FailureResult(out.msg)
                        ELSE IF out.jobs = <<>> THEN FailureResult("No jobs found")
                        ELSE SearchOnlyResult(jobs_with_scores(out.jobs))
          IN  Settle(t, [tk EXCEPT !.found = out.jobs, !.outs = Append(@, OutLog(out))],
                     job_status_store,
                     result)
    /\ UNCHANGED <<nextId, enrichment>>

\* run_application_generation_task up to the first await of a generation, or to its
\* end when nothing is awaited
GenerationStart(t) ==
    /\ Queued(t, "run_application_generation_task")
    /\ LET tk == tasks[t] IN
       IF tk.id \notin DOMAIN job_status_store
       THEN Raise(t, tk, job_status_store, "KeyError")
       ELSE LET st == StartedStore(job_status_store, tk.id)
                search_id == st[tk.id].search_id
            IN
            IF ~SearchIdUsable(st, search_id)
            THEN Raise(t, tk, st, "Search ID not found or invalid")
            ELSE LET selected == SelectJobs(StoredPostings(st[search_id]), tk.sel) IN
                 \E c \in CtorOutcomes :
                    IF c # None THEN Raise(t, tk, st, c)
                    ELSE IF selected = <<>>
                    THEN Settle(t, tk, st,
                           FailureResult("No jobs selected"))
                    ELSE /\ job_status_store' = st
                         /\ tasks' = [tasks EXCEPT ![t] =
                               [tk EXCEPT !.pc = "await_gen", !.jobs = selected, !.i = 1,
                                          !.calls = <<selected[1].company>>]]
    /\ UNCHANGED <<nextId, enrichment>>

\* one pass of the generation loop of run_application_generation, and after the
\* last pass the rest of run_application_generation_task
GenerationGenReturn(t) ==
    /\ Awaiting(t, "run_application_generation_task", "await_gen")
    /\ LET tk == tasks[t] IN
       \E out \in GenOutcomes :
          LET apps == Append(tk.apps, ApplicationEntry(tk.jobs[tk.i], out)) IN
          IF tk.i < Len(tk.jobs)
          THEN /\ tasks' = [tasks EXCEPT ![t] =
                     Kept([tk EXCEPT !.i = tk.i + 1, !.apps = apps, !.outs = Append(@, out),
                                !.calls = Append(@, tk.jobs[tk.i + 1].company)])]
               /\ UNCHANGED job_status_store
          ELSE Settle(t, [tk EXCEPT !.apps = apps, !.outs = Append(@, out)],
                      job_status_store,
                      GenerationResult(apps))
    /\ UNCHANGED <<nextId, enrichment>>

\* run_writer_initialization_task up to the await of Runner.run
WriterInitStart(t) ==
    /\ Queued(t, "run_writer_initialization_task")
    /\ LET tk == tasks[t] IN
       IF tk.id \notin DOMAIN job_status_store
       THEN Raise(t, tk, job_status_store, "KeyError")
       ELSE /\ job_status_store' = StartedStore(job_status_store, tk.id)
            /\ tasks' = [tasks EXCEPT ![t] =
                  [tk EXCEPT !.pc = "await_writer", !.calls = <<"writer">>]]
    /\ UNCHANGED <<nextId, enrichment>>

\* run_writer_initialization_task from the return of Runner.run
WriterInitReturn(t) ==
    /\ Awaiting(t, "run_writer_initialization_task", "await_writer")
    /\ LET tk == tasks[t] IN
       \E out \in WriterOutcomes :
          LET tk1 == [tk EXCEPT !.outs = Append(@, out)] IN
          IF out.kind = "raise" THEN Raise(t, tk1, job_status_store, out.msg)
          ELSE IF out.kind = "none"
          THEN Raise(t, tk1, job_status_store, "Failed to generate materials")
          ELSE Settle(t, tk1, job_status_store, t)
    /\ UNCHANGED <<nextId, enrichment>>

\* run_writer_refinement_task up to the await of Runner.run
RefineStart(t) ==
    /\ Queued(t, "run_writer_refinement_task")
    /\ LET tk == tasks[t] IN
       IF tk.id \notin DOMAIN job_status_store
       THEN Raise(t, tk, job_status_store, "KeyError")
       ELSE LET st == [job_status_store EXCEPT ![tk.id] = MarkRunningRefine(@)] IN
            IF ~st[tk.id].agent
            THEN Raise(t, tk, st, "Session not initialized properly")
            ELSE /\ job_status_store' = st
                 /\ tasks' = [tasks EXCEPT ![t] =
                       [tk EXCEPT !.pc = "await_writer", !.calls = <<"refine">>]]
    /\ UNCHANGED <<nextId, enrichment>>

\* run_writer_refinement_task from the return of Runner.run
RefineReturn(t) ==
    /\ Awaiting(t, "run_writer_refinement_task", "await_writer")
    /\ LET tk == tasks[t] IN
       \E out \in WriterOutcomes :
          LET tk1 == [tk EXCEPT !.outs = Append(@, out)] IN
          IF out.kind = "raise" THEN Raise(t, tk1, job_status_store, out.msg)
          ELSE IF out.kind = "none"
          THEN Raise(t, tk1, job_status_store, "Failed to update materials")
          ELSE Settle(t, tk1, job_status_store, t)
    /\ UNCHANGED <<nextId, enrichment>>

Next ==
    \/ trigger_workflow
    \/ search_jobs
    \/ generate_applications
    \/ start_writer_session
    \/ refine_writer_materials
    \/ cleanup_job
    \/ \E t \in TaskIds : WorkflowStart(t)
    \/ \E t \in TaskIds : WorkflowSearchReturn(t)
    \/ \E t \in TaskIds : WorkflowGenReturn(t)
    \/ \E t \in TaskIds : SearchStart(t)
    \/ \E t \in TaskIds : SearchReturn(t)
    \/ \E t \in TaskIds : GenerationStart(t)
    \/ \E t \in TaskIds : GenerationGenReturn(t)
    \/ \E t \in TaskIds : WriterInitStart(t)
    \/ \E t \in TaskIds : WriterInitReturn(t)
    \/ \E t \in TaskIds : RefineStart(t)
    \/ \E t \in TaskIds : RefineReturn(t)

Spec == Init /\ [][Next]_vars

\* the next stretch of background task t
Run(t) ==
    \/ WorkflowStart(t) \/ WorkflowSearchReturn(t) \/ WorkflowGenReturn(t)
    \/ SearchStart(t) \/ SearchReturn(t)
    \/ GenerationStart(t) \/ GenerationGenReturn(t)
    \/ WriterInitStart(t) \/ WriterInitReturn(t)
    \/ RefineStart(t) \/ RefineReturn(t)

RunnerStep == \E t \in TaskIds : Run(t)

\* the runs in which no record is deleted
NextKept ==
    \/ trigger_workflow
    \/ search_jobs
    \/ generate_applications
    \/ start_writer_session
    \/ refine_writer_materials
    \/ RunnerStep

\* the event loop runs a task that is ready, and every awaited Runner.run returns
\* or raises: while some task can take a step, one is taken
FairSpec == Init /\ [][NextKept]_vars /\ WF_vars(RunnerStep)

\* ------------------------------------------------- enrich_jobs_with_urls
ItemUrls == {UrlCareers, UrlIndeedSearch, UrlGlassdoorSearch, UrlLinkedinSearch}

\* a job dictionary as the search hands it over: no url_verified and no url_note
NewItem(url) == [url |-> url, url_verified |-> <<>>, url_note |-> <<>>]

ManualNote == "Direct job link could not be found. Search manually on job board."

\* the state on entry of a call, for every flag and every list of up to MaxBatch
\* dictionaries
EnrichInit ==
    /\ job_status_store = << >>
    /\ nextId = 0
    /\ tasks = << >>
    /\ PLAYWRIGHT_AVAILABLE \in BOOLEAN
    /\ \E n \in 0..MaxBatch :
          /\ jobs_in = [k \in 1..n |-> k]
          /\ dicts \in [1..n -> { NewItem(u) : u \in ItemUrls }]
    /\ call = [NewCall("called") EXCEPT !.entry = dicts]

Classified_noElse(accepted) ==
    LET Test(job) == accepted \/ ~is_valid_job_url(dicts[job].url)
    IN  SelectSeq(jobs_in, Test)

Classified_queuesAll(accepted) ==
    LET Test(job) == ~accepted \/ is_valid_job_url(dicts[job].url)
    IN  SelectSeq(jobs_in, Test)

\* the first loop: the references of jobs_in whose link is_valid_job_url accepts
\* (accepted = TRUE, enriched_jobs) or rejects (accepted = FALSE,
\* jobs_to_scrape), in the order of jobs_in
Classified(accepted) ==
    LET Test(job) == is_valid_job_url(dicts[job].url) = accepted
    IN  SelectSeq(jobs_in, Test)

Ev(ev, job) == [ev |-> ev, job |-> job]

\* the branch the resolution loop takes on original_url.lower()
Source_noElif(url) ==
    IF Contains(Lower(url), <<"indeed">>) THEN "indeed" ELSE "glassdoor"

Source(url) ==
    IF Contains(Lower(url), <<"indeed">>) THEN "indeed"
    ELSE IF Contains(Lower(url), <<"glassdoor">>) THEN "glassdoor"
    ELSE "other"

ScrapeFn(src) ==
    IF src = "indeed" THEN "scrape_indeed_job_url" ELSE "scrape_glassdoor_job_url"

\* what the body of a resolver meets once its page is open: a Playwright timeout,
\* another exception, no result, a first result without link element, or a first
\* result whose attribute (data-jk, href) is v; v = <<>> is None or ''
IndeedOutcomes ==
    { [kind |-> k, v |-> <<>>] : k \in {"timeout", "error", "zero"} }
    \cup { [kind |-> "found", v |-> v] : v \in {<<>>, <<"abc">>} }

HrefRelative == <<"/", "job", "-", "listing", "/", "x">>
HrefAbsolute ==
    <<"https://", "www", ".", "glassdoor", ".", "com", "/", "partner", "/", "x">>

GlassdoorOutcomes ==
    { [kind |-> k, v |-> <<>>] : k \in {"timeout", "error", "zero", "no_link"} }
    \cup { [kind |-> "found", v |-> v] : v \in {<<>>, HrefRelative, HrefAbsolute} }

\* the value a resolver returns, None being <<>> and a link u being <<u>>
scrape_indeed_job_url(out) ==
    IF out.kind = "found" /\ out.v # <<>>
    THEN << <<"https://", "nl", ".", "indeed", ".", "com", "/", "view", "job", "?",
              "jk=">> \o out.v >>
    ELSE <<>>

scrape_glassdoor_job_url(out) ==
    IF out.kind = "found" /\ out.v # <<>>
    THEN IF out.v[1] = "/"
         THEN << <<"https://", "www", ".", "glassdoor", ".", "com">> \o out.v >>
         ELSE << out.v >>
    ELSE <<>>

Updated_keepsLink(d, real_url) ==
    IF real_url # <<>> /\ real_url[1] # <<>>
    THEN [d EXCEPT !.url = real_url[1], !.url_verified = <<TRUE>>]
    ELSE [d EXCEPT !.url_verified = <<FALSE>>, !.url_note = <<ManualNote>>]

\* the update of the dictionary after the attempt
Updated(d, real_url) ==
    IF real_url # <<>> /\ real_url[1] # <<>>
    THEN [d EXCEPT !.url = real_url[1], !.url_verified = <<TRUE>>]
    ELSE [d EXCEPT !.url = URL_NOT_AVAILABLE, !.url_verified = <<FALSE>>,
                   !.url_note = <<ManualNote>>]

Current_fromEnd == call.jobs_to_scrape[Len(call.jobs_to_scrape) + 1 - call.pos]

\* the dictionary the loop variable job of the resolution loop refers to
Current == call.jobs_to_scrape[call.pos]

CloseBrowser_leavesOpen(log) == log

\* finally: await browser.close()
CloseBrowser(log) == Append(log, Ev("close_browser", 0))

ClosePage_leavesOpen(log, job) == log

\* finally: await page.close()
ClosePage(log, job) == Append(log, Ev("close_page", job))

\* enrich_jobs_with_urls from its entry to its first await, or to its return
enrich_jobs_with_urls ==
    /\ call.pc = "called"
    /\ call' =
         IF ~PLAYWRIGHT_AVAILABLE
         THEN [call EXCEPT !.pc = "returned", !.returned = jobs_in]
         ELSE LET enriched == Classified(TRUE)
                  queue == Classified(FALSE)
              IN  IF queue = <<>>
                  THEN [call EXCEPT !.pc = "returned", !.enriched_jobs = enriched,
                                    !.returned = enriched]
                  ELSE [call EXCEPT !.pc = "launch", !.enriched_jobs = enriched,
                                    !.jobs_to_scrape = queue]
    /\ UNCHANGED <<registry, PLAYWRIGHT_AVAILABLE, jobs_in, dicts>>

\* async_playwright() and chromium.launch return, or raise out of the call
Launch ==
    /\ call.pc = "launch"
    /\ \E ok \in BOOLEAN :
          call' = IF ok
                  THEN [call EXCEPT !.pc = "loop", !.pos = 1,
                                    !.log = Append(@, Ev("launch", 0))]
                  ELSE [call EXCEPT !.pc = "raised",
                                    !.escaped = <<"enrich_jobs_with_urls">>]
    /\ UNCHANGED <<registry, PLAYWRIGHT_AVAILABLE, jobs_in, dicts>>

\* the loop body for the next queued dictionary, up to browser.new_page() of its
\* resolver, or, when its link names neither source, up to asyncio.sleep
Attempt ==
    /\ call.pc = "loop"
    /\ IF Source(dicts[Current].url) = "other"
       THEN /\ dicts' = [dicts EXCEPT ![Current] = Updated(@, <<>>)]
            /\ call' = [call EXCEPT !.pc = "sleep",
                                    !.enriched_jobs = Append(@, Current),
                                    !.results = Append(@, [job |-> Current,
                                                           real_url |-> <<>>])]
       ELSE /\ call' = [call EXCEPT !.pc = "new_page"]
            /\ UNCHANGED dicts
    /\ UNCHANGED <<registry, PLAYWRIGHT_AVAILABLE, jobs_in>>

\* browser.new_page() returns a page, or raises: the resolver has no handler
\* around it, the loop has none either, and the finally of the call closes the
\* browser on the way out
NewPage ==
    /\ call.pc = "new_page"
    /\ \E ok \in BOOLEAN :
          call' = IF ok
                  THEN [call EXCEPT !.pc = "page",
                                    !.log = Append(@, Ev("new_page", Current))]
                  ELSE [call EXCEPT !.pc = "raised",
                                    !.escaped = <<ScrapeFn(Source(dicts[Current].url)),
                                                  "enrich_jobs_with_urls">>,
                                    !.log = CloseBrowser(@)]
    /\ UNCHANGED <<registry, PLAYWRIGHT_AVAILABLE, jobs_in, dicts>>

\* the try block of the resolver with its handlers and its finally, then the
\* update of the dictionary, up to asyncio.sleep
Resolve ==
    /\ call.pc = "page"
    /\ LET src == Source(dicts[Current].url) IN
       \E out \in IF src = "indeed" THEN IndeedOutcomes ELSE GlassdoorOutcomes :
          LET real_url == IF src = "indeed" THEN scrape_indeed_job_url(out)
                          ELSE scrape_glassdoor_job_url(out)
          IN  /\ dicts' = [dicts EXCEPT ![Current] = Updated(@, real_url)]
              /\ call' = [call EXCEPT !.pc = "sleep",
                                      !.enriched_jobs = Append(@, Current),
                                      !.results = Append(@, [job |-> Current,
                                                             real_url |-> real_url]),
                                      !.log = ClosePage(Append(@, Ev("goto", Current)),
                                                        Current)]
    /\ UNCHANGED <<registry, PLAYWRIGHT_AVAILABLE, jobs_in>>

\* asyncio.sleep(1) returns: the next queued dictionary, or the end of the loop,
\* the finally and the return
Sleep ==
    /\ call.pc = "sleep"
    /\ call' =
         IF call.pos < Len(call.jobs_to_scrape)
         THEN [call EXCEPT !.pc = "loop", !.pos = @ + 1,
                           !.log = Append(@, Ev("sleep", Current))]
         ELSE [call EXCEPT !.pc = "returned", !.returned = call.enriched_jobs,
                           !.log = CloseBrowser(Append(@, Ev("sleep", Current)))]
    /\ UNCHANGED <<registry, PLAYWRIGHT_AVAILABLE, jobs_in, dicts>>

EnrichNext ==
    \/ enrich_jobs_with_urls
    \/ Launch
    \/ Attempt
    \/ NewPage
    \/ Resolve
    \/ Sleep

EnrichSpec == EnrichInit /\ [][EnrichNext]_vars

\* ---------------------------------------------------------- score_job_match
\* the non-empty runs of pieces of s
Words(s) ==
    { SubSeq(s, i, j) : i \in 1..Len(s), j \in 1..Len(s) } \ {<<>>}

\* str.split(): the runs of pieces between the pieces " "
Split(s) ==
    { w \in Words(s) :
        /\ \A k \in 1..Len(w) : w[k] # " "
        /\ \E i \in 1..Len(s) :
              /\ SubSeq(s, i, i + Len(w) - 1) = w
              /\ (i = 1 \/ s[i - 1] = " ")
              /\ (i + Len(w) - 1 = Len(s) \/ s[i + Len(w)] = " ") }

\* ' '.join(list)
RECURSIVE JoinSpace(_)
JoinSpace(list) ==
    IF list = <<>> THEN <<>>
    ELSE IF Len(list) = 1 THEN list[1]
    ELSE list[1] \o <<" ">> \o JoinSpace(Tail(list))

\* every language of the profile, required or not
user_languages_all(user_profile) ==
    { Lower(user_profile.languages[k].language) : k \in 1..Len(user_profile.languages) }

\* the list user_languages: the required languages of the profile, in lower case
user_languages(user_profile) ==
    { Lower(user_profile.languages[k].language) :
        k \in { k \in 1..Len(user_profile.languages) : user_profile.languages[k].required } }

\* the four tests of score_job_match on a posting and a profile
Tests(job, user_profile) ==
    LET job_title == Lower(job.title)
        focus_roles == { Lower(user_profile.role_variations[k]) :
                           k \in 1..Len(user_profile.role_variations) }
        job_location == Lower(job.location)
        user_location == Lower(user_profile.country)
        description == Lower(job.description)
        requirements == Lower(JoinSpace(job.requirements))
    IN  [company |-> job.company,
         role |-> \E role \in focus_roles : \E word \in Split(role) :
                     Contains(job_title, word),
         loc |-> Contains(job_location, user_location),
         lang |-> \E lang \in user_languages(user_profile) :
                     Contains(description, lang) \/ Contains(requirements, lang),
         nskills |-> Len(job.skills),
         url |-> job.url]

\* the postings and profiles of the calls below
Titles ==
    { <<"Senior", " ", "Data", " ", "Scientist">>, <<"Data", "base", " ", "Admin">>,
      <<"Nurse">> }
Locations == { <<"Amsterdam", ", ", "Netherlands">>, <<"Berlin">> }
Descriptions == { <<"English", " ", "required">>, <<"team">> }
Requirements == { <<>>, << <<"Dutch">> >>, << <<"Python">>, <<"English">> >> }
RoleVariations ==
    { <<>>, << <<"Data", " ", "Scientist">> >>,
      << <<"Data", " ", "Scientist">>, <<"Data", " ", "Engineer">> >> }
Countries == { <<"Netherlands">>, <<"Germany">> }
Languages ==
    { <<>>, << [language |-> <<"English">>, required |-> TRUE] >>,
      << [language |-> <<"Dutch">>, required |-> FALSE] >>,
      << [language |-> <<"Dutch">>, required |-> FALSE],
         [language |-> <<"English">>, required |-> TRUE] >> }

ScoreInit ==
    /\ job_status_store = << >>
    /\ nextId = 0
    /\ tasks = << >>
    /\ PLAYWRIGHT_AVAILABLE = TRUE
    /\ jobs_in = <<>>
    /\ \E title \in Titles, location \in Locations, description \in Descriptions,
          requirements \in Requirements, n \in 0..MaxSkills :
          dicts = << [company |-> "A", title |-> title, location |-> location,
                      description |-> description, requirements |-> requirements,
                      skills |-> [k \in 1..n |-> "skill"], url |-> UrlCareers,
                      match_score |-> 0] >>
    /\ \E roles \in RoleVariations, country \in Countries, languages \in Languages :
          call = [NewCall("score_job_match") EXCEPT
                    !.entry = << [role_variations |-> roles, country |-> country,
                                  languages |-> languages] >>]

\* job_dict['match_score'] = score_job_match(job_dict, self.user_profile)
ScoreJob ==
    /\ call.pc = "score_job_match"
    /\ dicts' = [dicts EXCEPT ![1].match_score =
                    score_job_match(Tests(dicts[1], call.entry[1]))]
    /\ call' = [call EXCEPT !.pc = "scored"]
    /\ UNCHANGED <<registry, PLAYWRIGHT_AVAILABLE, jobs_in>>

ScoreNext == ScoreJob

ScoreSpec == ScoreInit /\ [][ScoreNext]_vars

\* ----------------------------------------------- requests and their answers
\* the answer of a request handler: 200, or the status_code of its HTTPException
Answer(handler, job_id, code) ==
    [NewCall(handler) EXCEPT !.entry = <<job_id>>, !.returned = <<code>>]

\* get_workflow_status(job_id), call holding the answer
GetStatus ==
    \E id \in Ids :
        /\ call' = Answer("get_workflow_status", id,
                          IF id \notin DOMAIN job_status_store THEN 404 ELSE 200)
        /\ UNCHANGED <<registry, PLAYWRIGHT_AVAILABLE, jobs_in, dicts>>

\* cleanup_job(job_id), call holding the answer
Cleanup ==
    \E id \in Ids :
        IF id \notin DOMAIN job_status_store
        THEN /\ call' = Answer("cleanup_job", id, 404)
             /\ UNCHANGED <<registry, PLAYWRIGHT_AVAILABLE, jobs_in, dicts>>
        ELSE /\ job_status_store' = Deleted(job_status_store, id)
             /\ tasks' = [t \in DOMAIN tasks |->
                            IF tasks[t].id # id THEN tasks[t]
                            ELSE IF tasks[t].pc = "done" THEN Forget(tasks[t])
                            ELSE Orphan(tasks[t])]
             /\ call' = Answer("cleanup_job", id, 200)
             /\ UNCHANGED <<nextId, PLAYWRIGHT_AVAILABLE, jobs_in, dicts>>

\* searches, their runners, and the two requests by id with their answers
RequestNext ==
    \/ search_jobs
    \/ \E t \in TaskIds : SearchStart(t)
    \/ \E t \in TaskIds : SearchReturn(t)
    \/ GetStatus
    \/ Cleanup

RequestSpec == Init /\ [][RequestNext]_vars

\* ------------------------------ a generation against a completed search job
\* job 1 is a SearchOnly job that has completed with up to MaxPick postings, job 2
\* a GenerateSelected job just created against it with any job_ids
GenerationInit ==
    /\ \E n \in 0..MaxPick, sel \in SeqsUpTo(0..MaxPick, MaxPick) :
         \E jobs \in JobLists(n) :
            /\ job_status_store =
                  (1 :> SearchCompleted(MarkRunning(NewRecord("job_search", NoId, <<>>)),
                          IF jobs = <<>> THEN FailureResult("No jobs found")
                          ELSE SearchOnlyResult(jobs_with_scores(jobs))))
                  @@ (2 :> NewRecord("application_generation", 1, sel))
            /\ tasks = <<NewTask("run_application_generation_task", 2, sel)>>
    /\ nextId = 2
    /\ NotCalled

GenerationNext ==
    \/ \E t \in TaskIds : GenerationStart(t)
    \/ \E t \in TaskIds : GenerationGenReturn(t)

GenerationSpec == GenerationInit /\ [][GenerationNext]_vars

\* --------------------------------------------------------- is_valid_job_url
\* the parts the links handed to is_valid_job_url are put together from: hosts,
\* paths, queries, and what a language model writes in place of a link
UrlParts ==
    { <<"https://", "nl", ".", "Indeed", ".", "com">>,
      <<"https://", "www", ".", "glassdoor", ".", "com">>,
      <<"https://", "linkedin", ".", "com">>,
      <<"https://", "acme", ".", "com">>,
      <<"https://", "career", "s", ".", "acme", ".", "com">>,
      <<"/", "view", "job", "?", "jk=", "abc">>,
      <<"/", "view", "job", "?", "jk=", "123456">>,
      <<"/", "rc", "/", "clk", "?", "jk=", "abc">>,
      <<"/", "job", "-", "listing", "/", "x">>,
      <<"/", "job", "s", "/", "view", "/", "1">>,
      <<"/", "job", "s", "/", "collections">>,
      <<"/", "career", "/", "1">>,
      <<"/", "feed">>,
      <<"/", "job", "s", "?", "q=", "x">>,
      <<"/", "Vacatures">>,
      <<"/", "job", "s", "-", "srch">>,
      <<"/", "search", "/", "job", "s">>,
      <<"?", "jl=", "123456">>,
      <<"?", "jl=", "777">>,
      <<"&", "jl=", "567890">>,
      <<"ellipsis">>,
      <<"See ", "listing">>,
      <<"see ", "job">>,
      URL_NOT_AVAILABLE }

RECURSIVE Joined(_)
Joined(parts) == IF parts = <<>> THEN <<>> ELSE Head(parts) \o Joined(Tail(parts))

\* the empty str and every link of up to MaxParts parts
Urls == { Joined(parts) : parts \in SeqsUpTo(UrlParts, MaxParts) }

ClassifyInit ==
    /\ job_status_store = << >>
    /\ nextId = 0
    /\ tasks = << >>
    /\ PLAYWRIGHT_AVAILABLE = TRUE
    /\ jobs_in = <<>>
    /\ dicts = <<>>
    /\ \E url \in Urls : call = [NewCall("is_valid_job_url") EXCEPT !.source_url = url]

\* one call of is_valid_job_url(url), returned holding its value
Classify ==
    /\ call.pc = "is_valid_job_url"
    /\ call' = [call EXCEPT !.pc = "classified",
                            !.returned = <<is_valid_job_url(call.source_url)>>]
    /\ UNCHANGED <<registry, PLAYWRIGHT_AVAILABLE, jobs_in, dicts>>

ClassifyNext == Classify

ClassifySpec == ClassifyInit /\ [][ClassifyNext]_vars

\* ----------------------------------------------------------- scrape_job_url
\* the state on entry of a call of scrape_job_url, for every flag and source_url
ScrapeInit ==
    /\ job_status_store = << >>
    /\ nextId = 0
    /\ tasks = << >>
    /\ PLAYWRIGHT_AVAILABLE \in BOOLEAN
    /\ jobs_in = <<>>
    /\ dicts = <<>>
    /\ \E u \in ItemUrls : call = [NewCall("scrape_called") EXCEPT !.source_url = u]

\* scrape_job_url from its entry to its first await, or to its return of None
scrape_job_url ==
    /\ call.pc = "scrape_called"
    /\ call' = IF ~PLAYWRIGHT_AVAILABLE
               THEN [call EXCEPT !.pc = "scrape_returned", !.returned = <<>>]
               ELSE [call EXCEPT !.pc = "scrape_launch"]
    /\ UNCHANGED <<registry, PLAYWRIGHT_AVAILABLE, jobs_in, dicts>>

\* async_playwright() and chromium.launch return, or raise out of the call; with
\* a browser, the branch on source_lower up to browser.new_page() of the
\* resolver, or the return of None through the finally
ScrapeLaunch ==
    /\ call.pc = "scrape_launch"
    /\ \E ok \in BOOLEAN :
          call' =
            IF ~ok
            THEN [call EXCEPT !.pc = "scrape_raised", !.escaped = <<"scrape_job_url">>]
            ELSE IF Source(call.source_url) = "other"
            THEN [call EXCEPT !.pc = "scrape_returned", !.returned = <<>>,
                              !.log = CloseBrowser(Append(@, Ev("launch", 0)))]
            ELSE [call EXCEPT !.pc = "scrape_new_page",
                              !.log = Append(@, Ev("launch", 0))]
    /\ UNCHANGED <<registry, PLAYWRIGHT_AVAILABLE, jobs_in, dicts>>

\* browser.new_page() of the resolver returns a page or raises
ScrapeNewPage ==
    /\ call.pc = "scrape_new_page"
    /\ \E ok \in BOOLEAN :
          call' = IF ok
                  THEN [call EXCEPT !.pc = "scrape_page",
                                    !.log = Append(@, Ev("new_page", 0))]
                  ELSE [call EXCEPT !.pc = "scrape_raised",
                                    !.escaped = <<ScrapeFn(Source(call.source_url)),
                                                  "scrape_job_url">>,
                                    !.log = CloseBrowser(@)]
    /\ UNCHANGED <<registry, PLAYWRIGHT_AVAILABLE, jobs_in, dicts>>

\* the try block of the resolver with its handlers and its finally, then the
\* finally and the return of scrape_job_url
ScrapeResolve ==
    /\ call.pc = "scrape_page"
    /\ LET src == Source(call.source_url) IN
       \E out \in IF src = "indeed" THEN IndeedOutcomes ELSE GlassdoorOutcomes :
          LET real_url == IF src = "indeed" THEN scrape_indeed_job_url(out)
                          ELSE scrape_glassdoor_job_url(out)
          IN  call' = [call EXCEPT !.pc = "scrape_returned", !.returned = real_url,
                                   !.log = CloseBrowser(ClosePage(
                                               Append(@, Ev("goto", 0)), 0))]
    /\ UNCHANGED <<registry, PLAYWRIGHT_AVAILABLE, jobs_in, dicts>>

LinkInit == EnrichInit \/ ScrapeInit

LinkNext ==
    \/ enrich_jobs_with_urls
    \/ Launch
    \/ Attempt
    \/ NewPage
    \/ Resolve
    \/ Sleep
    \/ scrape_job_url
    \/ ScrapeLaunch
    \/ ScrapeNewPage
    \/ ScrapeResolve

\* the calls of enrich_jobs_with_urls and the calls of scrape_job_url
LinkSpec == LinkInit /\ [][LinkNext]_vars


\* ------------------------------------------------------------------ claims
IsPrefix(a, b) == Len(a) <= Len(b) /\ \A k \in 1..Len(a) : a[k] = b[k]

WorkflowTypes == {None, "job_search", "application_generation"}

Present == DOMAIN job_status_store

Finished(t) == tasks[t].pc \in {"done", "crashed"}

\* task t leaves the queue in this step
Starts(t, fn) == Queued(t, fn) /\ tasks'[t].pc # "queued"

\* C1: the statuses a FullRun, SearchOnly or GenerateSelected record is given are,
\* in order, a prefix of pending, running, completed or of pending, running, failed
C1_StatusSequence ==
    \A id \in Present :
        job_status_store[id].type \in WorkflowTypes =>
            \/ IsPrefix(job_status_store[id].hist, <<"pending", "running", "completed">>)
            \/ IsPrefix(job_status_store[id].hist, <<"pending", "running", "failed">>)

C1_Witness ==
    /\ \E id \in Present :
          /\ job_status_store[id].type = "job_search"
          /\ job_status_store[id].hist = <<"pending", "running", "completed">>

\* C2: the step in which a Stage Runner's handler catches an exception, the record
\* being in the registry, leaves the record failed, with completed_at set and the
\* exception's message as error
C2_RaiseFails ==
    [][\A t \in TaskIds :
          (/\ tasks[t].raised = None
           /\ tasks'[t].raised # None
           /\ tasks[t].id \in Present)
          => /\ tasks[t].id \in DOMAIN job_status_store'
             /\ job_status_store'[tasks[t].id].status = "failed"
             /\ job_status_store'[tasks[t].id].completed_at # None
             /\ job_status_store'[tasks[t].id].error = tasks'[t].raised]_vars

C2_Witness ==
    \E t \in TaskIds :
        /\ tasks[t].fn = "run_writer_initialization_task"
        /\ tasks[t].raised \in Msgs
        /\ tasks[t].id \in Present
        /\ job_status_store[tasks[t].id].status = "failed"
        /\ job_status_store[tasks[t].id].error = tasks[t].raised

\* C3: a FullRun or SearchOnly job whose search call raised ends failed with the
\* generator's message as error
C3_SearchFailureFails ==
    \A t \in TaskIds :
        (/\ tasks[t].fn \in {"run_workflow_task", "run_job_search_task"}
         /\ Finished(t)
         /\ tasks[t].outs # <<>>
         /\ tasks[t].outs[1].kind = "raise"
         /\ tasks[t].id \in Present)
        => /\ job_status_store[tasks[t].id].status = "failed"
           /\ job_status_store[tasks[t].id].error = tasks[t].outs[1].msg

\* C4: a GenerateSelected runner that starts with search_id null or out of the
\* registry leaves its job failed and ends without a call of the Content Generator
C4_MissingSearchFails ==
    [][\A t \in TaskIds :
          (/\ Starts(t, "run_application_generation_task")
           /\ tasks[t].id \in Present
           /\ \/ job_status_store[tasks[t].id].search_id = NoId
              \/ job_status_store[tasks[t].id].search_id \notin Present)
          => /\ job_status_store'[tasks[t].id].status = "failed"
             /\ tasks'[t].pc = "done"
             /\ tasks'[t].calls = <<>>]_vars

C4_Witness ==
    \E t \in TaskIds :
        /\ tasks[t].fn = "run_application_generation_task"
        /\ tasks[t].raised = "Search ID not found or invalid"
        /\ tasks[t].calls = <<>>
        /\ tasks[t].id \in Present
        /\ job_status_store[tasks[t].id].search_id # NoId
        /\ job_status_store[tasks[t].id].status = "failed"

\* C5: a GenerateSelected runner that starts while its linked job is in the registry
\* and not completed leaves its job failed
C5_IncompleteSearchFails ==
    [][\A t \in TaskIds :
          (/\ Starts(t, "run_application_generation_task")
           /\ tasks[t].id \in Present
           /\ job_status_store[tasks[t].id].search_id \in Present
           /\ job_status_store[job_status_store[tasks[t].id].search_id].status
                # "completed")
          => job_status_store'[tasks[t].id].status = "failed"]_vars

\* the outcomes of the generation calls of task t, one per item
GenOuts(t) ==
    IF tasks[t].fn = "run_workflow_task" THEN Tail(tasks[t].outs) ELSE tasks[t].outs

GenCalls(t) ==
    IF tasks[t].fn = "run_workflow_task" THEN Tail(tasks[t].calls) ELSE tasks[t].calls

\* a runner whose generation loop has run to its end, the record being there
LoopDone(t) ==
    /\ tasks[t].fn \in {"run_workflow_task", "run_application_generation_task"}
    /\ tasks[t].pc = "done"
    /\ Len(tasks[t].jobs) >= 1
    /\ tasks[t].id \in Present

\* one call per item, in order; the job completed; one entry per item, in order,
\* with a reason on each failed one
LoopShape(t) ==
    LET rec == job_status_store[tasks[t].id]
        jobs == tasks[t].jobs
        n == Len(jobs)
    IN  /\ GenCalls(t) = [k \in 1..n |-> jobs[k].company]
        /\ Len(GenOuts(t)) = n
        /\ rec.status = "completed"
        /\ rec.results # <<>>
        /\ Len(rec.results[1].applications) = n
        /\ \A k \in 1..n :
              /\ rec.results[1].applications[k].company = jobs[k].company
              /\ ~rec.results[1].applications[k].success
                    => rec.results[1].applications[k].error # None

\* C6 as stated: applications_generated is n less the generator calls that raised
\* or returned nothing, and as many entries are marked failed
C6_CountsGeneratorFailures ==
    \A t \in TaskIds :
        LoopDone(t) =>
            LET rec == job_status_store[tasks[t].id]
                n == Len(tasks[t].jobs)
                failed == { k \in 1..Len(GenOuts(t)) :
                              GenOuts(t)[k].kind \in {"raise", "none"} }
            IN  /\ LoopShape(t)
                /\ rec.applications_generated = n - Cardinality(failed)
                /\ \A k \in 1..n :
                      rec.results[1].applications[k].success <=> k \notin failed

\* C6 amended: an item fails when its generator call raises or returns nothing, or
\* when saving its materials raises; applications_generated is n less the failed
\* items, and exactly those have a failed entry
C6_CountsItemFailures ==
    \A t \in TaskIds :
        LoopDone(t) =>
            LET rec == job_status_store[tasks[t].id]
                n == Len(tasks[t].jobs)
                failed == { k \in 1..Len(GenOuts(t)) : GenOuts(t)[k].kind # "ok" }
            IN  /\ LoopShape(t)
                /\ rec.applications_generated = n - Cardinality(failed)
                /\ rec.results[1].applications_generated = n - Cardinality(failed)
                /\ \A k \in 1..n :
                      rec.results[1].applications[k].success <=> k \notin failed

C6_Witness ==
    \E t \in TaskIds :
        /\ LoopDone(t)
        /\ tasks[t].fn = "run_workflow_task"
        /\ Len(tasks[t].jobs) = 2
        /\ GenOuts(t)[1].kind = "none"
        /\ GenOuts(t)[2].kind = "ok"
        /\ job_status_store[tasks[t].id].applications_generated = 1

\* C7: no record is given a status after failed
C7_FailedIsFinal ==
    \A id \in Present :
        \A k \in 1..(Len(job_status_store[id].hist) - 1) :
            job_status_store[id].hist[k] # "failed"

\* the new task of a step that dispatches one
Dispatched == tasks'[Len(tasks')]

\* C8: a writer session's status moves only pending to running, running to
\* completed or failed, completed to pending; and a refine request for a session
\* that is pending or running changes nothing and dispatches nothing
C8_RefineOnlyWhenCompleted ==
    [][\A id \in Present :
          job_status_store[id].type = "writer_session" =>
             /\ id \in DOMAIN job_status_store' =>
                   \A k \in 1..(Len(job_status_store'[id].hist) - 1) :
                       <<job_status_store'[id].hist[k], job_status_store'[id].hist[k + 1]>>
                          \in { <<"pending", "running">>, <<"running", "completed">>,
                                <<"running", "failed">>, <<"completed", "pending">> }
             /\ (/\ job_status_store[id].status \in {"pending", "running"}
                 /\ Len(tasks') > Len(tasks))
                => Dispatched.id # id]_vars

\* C9: no id has two Stage Runner tasks dispatched and not finished
C9_OneRunnerPerId ==
    \A t1, t2 \in TaskIds :
        (t1 # t2 /\ tasks[t1].id = tasks[t2].id) => (Finished(t1) \/ Finished(t2))

\* C10: a step of the Stage Runner of one job leaves every other job's record as
\* it was, and adds and removes no record
C10_RunnerWritesOwnRecord ==
    [][\A t \in TaskIds :
          (tasks'[t].pc # tasks[t].pc \/ tasks'[t].i > tasks[t].i) =>
             /\ DOMAIN job_status_store' = Present
             /\ \A b \in Present \ {tasks[t].id} :
                   job_status_store'[b] = job_status_store[b]]_vars

C10_Witness ==
    \E t \in TaskIds :
        /\ tasks[t].fn = "run_application_generation_task"
        /\ tasks[t].pc = "done"
        /\ Len(tasks[t].apps) >= 1
        /\ tasks[t].id \in Present
        /\ job_status_store[tasks[t].id].search_id \in Present
        /\ job_status_store[job_status_store[tasks[t].id].search_id].status = "completed"

\* C11: a record whose status is pending or running holds no results, no materials
\* and no error
C11_PayloadOnlyWhenEnded ==
    \A id \in Present :
        job_status_store[id].status \in {"pending", "running"} =>
            /\ job_status_store[id].results = <<>>
            /\ job_status_store[id].materials = <<>>
            /\ job_status_store[id].error = None

\* C12: a step that hands out an id inserts one record under it, pending and with
\* started_at and completed_at null; the id was no key before, and every record
\* that was there is as it was
C12_CreateInsertsPending ==
    [][nextId' # nextId =>
          /\ nextId' \notin Present
          /\ DOMAIN job_status_store' = Present \cup {nextId'}
          /\ job_status_store'[nextId'].status = "pending"
          /\ job_status_store'[nextId'].started_at = None
          /\ job_status_store'[nextId'].completed_at = None
          /\ \A k \in Present : job_status_store'[k] = job_status_store[k]]_vars

C12_Witness ==
    /\ nextId = 2
    /\ Present = {1, 2}
    /\ job_status_store[1].status = "completed"
    /\ job_status_store[2].type = "application_generation"
    /\ job_status_store[2].status = "pending"
    /\ job_status_store[2].started_at = None
    /\ job_status_store[2].completed_at = None

\* C13: in a run without deletions no job stays pending or running forever: however
\* many jobs and refine requests there are, again and again every job in the
\* registry is completed or failed
C13_NoJobStaysOpen ==
    []<>(\A id \in Present : job_status_store[id].status \in {"completed", "failed"})

\* the same, job by job: a job that is in the registry gets to completed
\* or failed
C13_EveryJobEnds ==
    \A id \in Ids :
        (id \in Present)
           ~> (id \in Present /\ job_status_store[id].status \in {"completed", "failed"})

C13_Witness ==
    \E id \in Present :
        /\ job_status_store[id].type = "writer_session"
        /\ job_status_store[id].hist =
              <<"pending", "running", "completed", "pending", "running", "completed">>
        /\ \A t \in TaskIds : Finished(t)

\* C14: every posting stored by a completed FullRun or SearchOnly job has a link the
\* classifier accepts, or the sentinel
C14_StoredLinksEnriched ==
    \A id \in Present :
        (/\ job_status_store[id].type \in {None, "job_search"}
         /\ job_status_store[id].status = "completed")
        => \A k \in 1..Len(StoredPostings(job_status_store[id])) :
              LET url == StoredPostings(job_status_store[id])[k].url
              IN  is_valid_job_url(url) \/ url = URL_NOT_AVAILABLE

\* ----------------------------------------- claims on enrich_jobs_with_urls
Returned == call.pc = "returned"
AcceptedOnEntry(job) == is_valid_job_url(call.entry[job].url)
Occurrences(list, job) == Cardinality({ k \in 1..Len(list) : list[k] = job })

\* C15: the list enrich_jobs_with_urls returns has, at every position, the item
\* the input list has at that position
C15_OrderPreserved ==
    Returned =>
        /\ Len(call.returned) = Len(jobs_in)
        /\ \A k \in 1..Len(jobs_in) : call.returned[k] = jobs_in[k]

\* C16: the list enrich_jobs_with_urls returns has the length of the input list
\* and holds every input item exactly once
C16_EachItemOnce ==
    Returned =>
        /\ Len(call.returned) = Len(jobs_in)
        /\ \A k \in 1..Len(jobs_in) : Occurrences(call.returned, jobs_in[k]) = 1

C16_Witness ==
    /\ Returned
    /\ Len(jobs_in) = 3
    /\ call.returned # jobs_in
    /\ \E a, b \in 1..Len(call.results) :
          call.results[a].real_url = <<>> /\ call.results[b].real_url # <<>>

\* C17: when the classifier accepts every link of the batch on entry (the empty
\* batch included), the call launches no browser, opens no page, attempts no
\* resolution and sleeps never: its one step is its return
C17_NothingToResolve ==
    (\A job \in 1..Len(jobs_in) : AcceptedOnEntry(job))
       => /\ call.pc \in {"called", "returned"}
          /\ call.log = <<>>
          /\ call.results = <<>>

C17_Witness ==
    /\ Returned
    /\ PLAYWRIGHT_AVAILABLE
    /\ Len(jobs_in) = 2
    /\ \A job \in 1..Len(jobs_in) : AcceptedOnEntry(job)
    /\ call.returned = jobs_in

\* C18: after the return of a call, an item accepted on entry has the fields it
\* had on entry; an item of jobs_to_scrape has had its attempt, and
\* it has the sentinel, url_verified false and the manual-lookup note when the
\* attempt gave no link, the resolved link and url_verified true when it gave one
C18_ItemsAfterReturn ==
    Returned =>
        /\ \A job \in 1..Len(jobs_in) :
              IF AcceptedOnEntry(job)
              THEN dicts[job] = call.entry[job]
              ELSE \A k \in 1..Len(call.jobs_to_scrape) :
                      call.jobs_to_scrape[k] = job
                         => \E r \in 1..Len(call.results) : call.results[r].job = job
        /\ \A r \in 1..Len(call.results) :
              LET job == call.results[r].job
                  real_url == call.results[r].real_url
              IN  /\ ~AcceptedOnEntry(job)
                  /\ IF real_url = <<>>
                     THEN /\ dicts[job].url = URL_NOT_AVAILABLE
                          /\ dicts[job].url_verified = <<FALSE>>
                          /\ dicts[job].url_note = <<ManualNote>>
                     ELSE /\ dicts[job].url = real_url[1]
                          /\ dicts[job].url_verified = <<TRUE>>

C18_Witness ==
    /\ Returned
    /\ Len(jobs_in) = 3
    /\ AcceptedOnEntry(1) /\ ~AcceptedOnEntry(2) /\ AcceptedOnEntry(3)
    /\ dicts[2].url = URL_NOT_AVAILABLE
    /\ \E r \in 1..Len(call.results) :
          call.results[r].job = 2 /\ call.results[r].real_url = <<>>

Escaped(fn) == \E k \in 1..Len(call.escaped) : call.escaped[k] = fn

\* C19: once the resolution loop has begun, no failure ends the call with an
\* exception: whatever happens while one queued item is resolved, the call goes
\* on to the next item
C19_FailureNeverAborts == call.pc = "raised" => call.pos = 0

\* C20: no exception leaves scrape_indeed_job_url or scrape_glassdoor_job_url
C20_ResolverNeverRaises ==
    ~Escaped("scrape_indeed_job_url") /\ ~Escaped("scrape_glassdoor_job_url")

Count(ev, job) ==
    Cardinality({ k \in 1..Len(call.log) : call.log[k] = Ev(ev, job) })
Ended == call.pc \in {"returned", "raised"}

\* C21: a call launches at most one browser; while the call runs the browser it
\* launched is open, and when the call has ended, by its return or by an
\* exception out of the resolution loop, that browser has been closed exactly once
C21_BrowserClosedOnce ==
    /\ Count("launch", 0) <= 1
    /\ Count("close_browser", 0) = IF Ended THEN Count("launch", 0) ELSE 0

C21_Witness ==
    /\ call.pc = "raised"
    /\ call.pos = 2
    /\ Count("launch", 0) = 1
    /\ Count("close_browser", 0) = 1

InQueue(job) == \E k \in 1..Len(call.jobs_to_scrape) : call.jobs_to_scrape[k] = job
Navigated(job) == Count("goto", job)

\* C22: every attempt of a resolver works on one page of its own: an item has at
\* most one page, a navigation only on its page, and the page is open exactly
\* while the attempt on the item is in its try block; no page is open once the
\* attempt is over or the call has ended
C22_PageClosedOnce ==
    \A job \in 1..Len(jobs_in) :
        /\ Count("new_page", job) <= 1
        /\ Navigated(job) <= Count("new_page", job)
        /\ Count("close_page", job) =
              IF call.pc = "page" /\ Current = job THEN 0 ELSE Count("new_page", job)

C22_Witness ==
    /\ Returned
    /\ Len(call.jobs_to_scrape) = 2
    /\ \A job \in 1..2 :
          /\ InQueue(job)
          /\ Count("new_page", job) = 1
          /\ Count("close_page", job) = 1
    /\ dicts[1].url = URL_NOT_AVAILABLE
    /\ dicts[2].url_verified = <<TRUE>>

NamesNoSource(url) ==
    /\ ~Contains(Lower(url), <<"indeed">>)
    /\ ~Contains(Lower(url), <<"glassdoor">>)

RECURSIVE SubSeqOf(_, _)
SubSeqOf(a, b) ==
    IF a = <<>> THEN TRUE
    ELSE IF b = <<>> THEN FALSE
    ELSE IF Head(a) = Head(b) THEN SubSeqOf(Tail(a), Tail(b))
    ELSE SubSeqOf(a, Tail(b))

\* the events of one loop iteration on job, the delay included
AttemptLogs(job) ==
    IF NamesNoSource(call.entry[job].url)
    THEN { <<Ev("sleep", job)>> }
    ELSE { <<Ev("new_page", job), Ev("goto", job), Ev("close_page", job), Ev("sleep", job)>> }

\* the events of the loop over queue
RECURSIVE BatchLogs(_)
BatchLogs(queue) ==
    IF queue = <<>> THEN { <<>> }
    ELSE { a \o rest : a \in AttemptLogs(Head(queue)), rest \in BatchLogs(Tail(queue)) }

\* C24: the queue holds the rejected items in the order of the input; after the
\* return of a call that launched a browser, what happened between launch and
\* close is, for each queued item in the order of the queue, its attempt
\* followed by one delay, the attempt of an item being over before the delay and
\* the delay being over before the next item's attempt
C24_SequentialWithDelay ==
    /\ SubSeqOf(call.jobs_to_scrape, jobs_in)
    /\ \A job \in 1..Len(jobs_in) : InQueue(job) => ~AcceptedOnEntry(job)
    /\ \A job \in 1..Len(jobs_in) : Count("sleep", job) <= 1
    /\ (Returned /\ call.log # <<>>) =>
          /\ \A job \in 1..Len(jobs_in) :
                Count("sleep", job) = IF InQueue(job) THEN 1 ELSE 0
          /\ call.log \in { <<Ev("launch", 0)>> \o l \o <<Ev("close_browser", 0)>> :
                             l \in BatchLogs(call.jobs_to_scrape) }

C24_Witness ==
    /\ Returned
    /\ call.jobs_to_scrape = <<1, 3>>
    /\ NamesNoSource(call.entry[1].url)
    /\ dicts[3].url = URL_NOT_AVAILABLE
    /\ Count("new_page", 3) = 1
    /\ Count("sleep", 1) = 1 /\ Count("sleep", 3) = 1

\* ---------------------------------------------- claims on is_valid_job_url
Verdict(v) == call.pc = "classified" /\ call.returned = <<v>>
Rejected == Verdict(FALSE)
Accepted == Verdict(TRUE)

\* the texts the claim lists: search-results paths, the truncation marker, the
\* placeholder phrases
Markers ==
    { <<"/", "vacatures">>, <<"/", "job", "s", "-", "srch">>, <<"job", "s", "?", "q=">>,
      <<"search", "/", "job", "s">>, <<"ellipsis">>, <<"see ", "listing">>,
      <<"see ", "job">> }

HasMarker(url) == \E m \in Markers : Contains(Lower(url), m)

\* C25: is_valid_job_url returns False for the empty str, for the sentinel and
\* for every link that holds one of the markers in any letter case, whatever else
\* the link holds
C25_MarkersRejected ==
    (/\ call.pc = "classified"
     /\ \/ call.source_url = <<>>
        \/ call.source_url = URL_NOT_AVAILABLE
        \/ HasMarker(call.source_url))
    => Rejected

C25_Witness ==
    /\ Rejected
    /\ Contains(call.source_url, <<"/", "Vacatures">>)
    /\ Contains(call.source_url, <<"career", "s", ".">>)
    /\ ~ \E m \in Markers \ { <<"/", "vacatures">> } : Contains(Lower(call.source_url), m)

\* url is a scheme, a host that ends in board.com, then path and query
OnBoard(url, board) ==
    /\ Len(url) >= 4
    /\ url[1] = "https://"
    /\ \A k \in 2..Len(url) : url[k] # "https://"
    /\ \E k \in 2..(Len(url) - 2) :
          /\ <<LowerPiece(url[k]), url[k + 1], url[k + 2]>> = <<board, ".", "com">>
          /\ \A j \in 2..k : url[j] \notin {"/", "?", "&"}
          /\ (k + 3 <= Len(url) => url[k + 3] \in {"/", "?"})

\* the first parameter key of the query of url has one of the values
FirstParamIn(url, key, values) ==
    LET keys == { k \in (QueryStart(url) + 1)..(Len(url) - 1) :
                    /\ url[k] = key
                    /\ (k = QueryStart(url) + 1 \/ url[k - 1] = "&")
                    /\ url[k + 1] # "&" }
    IN  /\ keys # {}
        /\ LET k == CHOOSE k \in keys : \A j \in keys : k <= j
           IN  /\ url[k + 1] \in values
               /\ (k + 2 > Len(url) \/ url[k + 2] = "&")

\* C26: is_valid_job_url returns False for every link on an aggregator whose
\* links carry an identifier parameter (jk on indeed.com, jl on glassdoor.com)
\* when that identifier is one of the placeholder values, also when the link
\* matches an accept pattern
C26_PlaceholderRejected ==
    (/\ call.pc = "classified"
     /\ \/ OnBoard(call.source_url, "glassdoor")
           /\ FirstParamIn(call.source_url, "jl=", placeholder_ids)
        \/ OnBoard(call.source_url, "indeed")
           /\ FirstParamIn(call.source_url, "jk=", placeholder_ids))
    => Rejected

\* the same for glassdoor.com alone, the one aggregator the code tests
C26_GlassdoorPlaceholderRejected ==
    (/\ call.pc = "classified"
     /\ OnBoard(call.source_url, "glassdoor")
     /\ FirstParamIn(call.source_url, "jl=", placeholder_ids))
    => Rejected

DirectPost(url) ==
    \/ OnBoard(url, "indeed")
       /\ \/ Contains(Lower(url), <<"indeed", ".", "com", "/", "view", "job", "?", "jk=">>)
          \/ Contains(Lower(url), <<"indeed", ".", "com", "/", "rc", "/", "clk", "?", "jk=">>)
    \/ OnBoard(url, "glassdoor")
       /\ Contains(Lower(url), <<"glassdoor", ".", "com", "/", "job", "-", "listing", "/">>)
    \/ OnBoard(url, "linkedin")
       /\ Contains(Lower(url), <<"linkedin", ".", "com", "/", "job", "s", "/", "view", "/">>)

\* C27: a link on indeed.com, glassdoor.com or linkedin.com for which
\* is_valid_job_url returns True matches a direct-post pattern of its aggregator
C27_AggregatorNeedsDirectPost ==
    (/\ Accepted
     /\ \E board \in {"indeed", "glassdoor", "linkedin"} : OnBoard(call.source_url, board))
    => DirectPost(call.source_url)

\* ------------------------------------------- claims on the selection by index
\* the positions (from 1) of the stored postings of the linked job whose
\* zero-based position is in job_ids
Picked(t) ==
    LET rec == job_status_store[tasks[t].id]
        all == StoredPostings(job_status_store[rec.search_id])
    IN  { p \in 1..Len(all) : \E j \in 1..Len(tasks[t].sel) : tasks[t].sel[j] = p - 1 }

NthOf(S, k) == CHOOSE p \in S : Cardinality({ q \in S : q < p }) = k - 1

\* the postings at those positions, each once
PickedCompanies(t) ==
    LET all == StoredPostings(job_status_store[job_status_store[tasks[t].id].search_id])
    IN  [k \in 1..Cardinality(Picked(t)) |-> all[NthOf(Picked(t), k)].company]

\* C28: the invocations of the Content Generator by a GenerateSelected runner are
\* never for a posting that is not picked nor a second one for a picked posting,
\* and when the runner has ended without an exception there has been one for
\* each picked posting
C28_OneCallPerPicked ==
    \A t \in TaskIds :
        (/\ tasks[t].fn = "run_application_generation_task"
         /\ tasks[t].id \in Present
         /\ job_status_store[tasks[t].id].search_id \in Present)
        => /\ IsPrefix(tasks[t].calls, PickedCompanies(t))
           /\ (tasks[t].pc = "done" /\ tasks[t].raised = None)
                 => tasks[t].calls = PickedCompanies(t)

C28_Witness ==
    \E t \in TaskIds :
        /\ tasks[t].pc = "done"
        /\ tasks[t].raised = None
        /\ tasks[t].sel = <<2, 0>>
        /\ Picked(t) = {1}
        /\ tasks[t].calls = PickedCompanies(t)
        /\ Len(tasks[t].calls) = 1

\* ------------------------------------------------ claims on requests by id
Answered(handler, id) == call.pc = handler /\ call.entry = <<id>>

\* C29: cleanup_job of an id that is not in the registry answers 404 and changes
\* no record; of an id that is, it answers 200, takes that record out and
\* leaves every other record as it was; an id that was taken out stays out, and
\* get_workflow_status of an id that is out answers 404
C29_DeleteExactlyOne ==
    [][\A id \in Ids :
          /\ (call' # call /\ Answered("cleanup_job", id)') =>
                IF id \in Present
                THEN /\ call'.returned = <<200>>
                     /\ DOMAIN job_status_store' = Present \ {id}
                     /\ \A k \in Present \ {id} :
                           job_status_store'[k] = job_status_store[k]
                ELSE /\ call'.returned = <<404>>
                     /\ job_status_store' = job_status_store
          /\ (id <= nextId /\ id \notin Present) => id \notin DOMAIN job_status_store'
          /\ (call' # call /\ Answered("get_workflow_status", id)') =>
                call'.returned = <<IF id \in Present THEN 200 ELSE 404>>]_vars

C29_Witness ==
    /\ Answered("get_workflow_status", 1)
    /\ call.returned = <<404>>
    /\ nextId = 2
    /\ Present = {2}
    /\ job_status_store[2].status = "completed"

\* ----------------------------------------------- claims on score_job_match
Profile == call.entry[1]
Posting == dicts[1]

\* a word of a role variation is in the title, whatever the letter case
TitleComponent ==
    IF \E k \in 1..Len(Profile.role_variations) :
          \E word \in Split(Profile.role_variations[k]) :
             Contains(Lower(Posting.title), Lower(word))
    THEN 40 ELSE 0

LocationComponent ==
    IF Contains(Lower(Posting.location), Lower(Profile.country)) THEN 20 ELSE 0

\* a required language is named in the description or in a requirement
LanguageComponent ==
    IF \E k \in 1..Len(Profile.languages) :
          /\ Profile.languages[k].required
          /\ \/ Contains(Lower(Posting.description), Lower(Profile.languages[k].language))
             \/ \E r \in 1..Len(Posting.requirements) :
                   Contains(Lower(Posting.requirements[r]),
                            Lower(Profile.languages[k].language))
    THEN 20 ELSE 0

SkillsComponent ==
    IF Len(Posting.skills) >= 3 THEN 20 ELSE IF Len(Posting.skills) >= 1 THEN 10 ELSE 0

\* C30: the match_score score_job_match gives a posting is the sum of the four
\* components and lies in 0..100
C30_ScoreIsSum ==
    call.pc = "scored" =>
        /\ Posting.match_score \in 0..100
        /\ Posting.match_score =
              TitleComponent + LocationComponent + LanguageComponent + SkillsComponent

C30_Witness ==
    /\ call.pc = "scored"
    /\ Posting.match_score = 70
    /\ TitleComponent = 40
    /\ LanguageComponent = 20
    /\ SkillsComponent = 10
    /\ Len(Profile.role_variations) = 2
    /\ Len(Profile.languages) = 2

\* ------------------------------------------ claims on the fields of a record
\* C31: the error of a record is non-null exactly when its status is failed
C31_ErrorIffFailed ==
    \A id \in Present :
        (job_status_store[id].error # None) <=> (job_status_store[id].status = "failed")

\* C35: completed_at is non-null exactly when the status is completed or
\* failed, and started_at exactly when it is running, completed or failed
C35_TimestampsFollowStatus ==
    \A id \in Present :
        /\ (job_status_store[id].completed_at # None)
               <=> (job_status_store[id].status \in {"completed", "failed"})
        /\ (job_status_store[id].started_at # None)
               <=> (job_status_store[id].status \in {"running", "completed", "failed"})

\* ------------------------------------------- the postings shown to the caller
\* sorted(job_postings, key=lambda x: x.get("match_score", 0), reverse=True):
\* highest score first, postings of equal score in their stored order
sorted_postings(job_postings) ==
    LET n == Len(job_postings)
        Place(k) == 1 + Cardinality({ j \in 1..n :
                           \/ job_postings[j].match_score > job_postings[k].match_score
                           \/ /\ job_postings[j].match_score = job_postings[k].match_score
                              /\ j < k })
    IN  [p \in 1..n |-> job_postings[CHOOSE k \in 1..n : Place(k) = p]]

\* get_job_postings(search_id), call holding the answer and the list returned
get_job_postings ==
    \E search_id \in Ids :
        /\ call' =
              IF search_id \notin DOMAIN job_status_store
              THEN Answer("get_job_postings", search_id, 404)
              ELSE LET search_info == job_status_store[search_id] IN
                   IF search_info.status \in {"pending", "running"}
                   THEN Answer("get_job_postings", search_id, 200)
                   ELSE IF search_info.status = "failed"
                   THEN Answer("get_job_postings", search_id, 500)
                   ELSE [Answer("get_job_postings", search_id, 200) EXCEPT
                            !.results = sorted_postings(StoredPostings(search_info))]
        /\ UNCHANGED <<registry, PLAYWRIGHT_AVAILABLE, jobs_in, dicts>>

\* a generation against a completed search job whose postings a caller reads
PostingsNext ==
    \/ get_job_postings
    \/ \E t \in TaskIds : GenerationStart(t)
    \/ \E t \in TaskIds : GenerationGenReturn(t)

PostingsSpec == GenerationInit /\ [][PostingsNext]_vars

\* C33: a posting a GenerateSelected runner takes for zero-based position i is
\* the posting at position i of the list get_job_postings returned for the
\* linked search job
C33_SelectsWhatWasShown ==
    \A t \in TaskIds :
        (/\ tasks[t].fn = "run_application_generation_task"
         /\ tasks[t].calls # <<>>
         /\ tasks[t].id \in Present
         /\ job_status_store[tasks[t].id].search_id \in Present
         /\ Answered("get_job_postings", job_status_store[tasks[t].id].search_id)
         /\ job_status_store[job_status_store[tasks[t].id].search_id].status = "completed")
        => \A p \in Picked(t) :
              StoredPostings(job_status_store[job_status_store[tasks[t].id].search_id])[p]
                 = call.results[p]

\* ------------------------------------- claims on runners of a deleted record
\* full runs and searches, their runners, and deletes at any moment
CleanupNext ==
    \/ trigger_workflow
    \/ search_jobs
    \/ cleanup_job
    \/ \E t \in TaskIds : WorkflowStart(t)
    \/ \E t \in TaskIds : WorkflowSearchReturn(t)
    \/ \E t \in TaskIds : WorkflowGenReturn(t)
    \/ \E t \in TaskIds : SearchStart(t)
    \/ \E t \in TaskIds : SearchReturn(t)

CleanupSpec == Init /\ [][CleanupNext]_vars

\* C34: once cleanup_job has deleted the record of a job whose Stage Runner has
\* not ended, the id is in the registry after no later step, and a step of that
\* runner leaves every record of the registry as it was
C34_DeletedStaysDeleted ==
    [][\A t \in TaskIds :
          tasks[t].id \notin Present
          => /\ tasks[t].id \notin DOMAIN job_status_store'
             /\ tasks'[t] # tasks[t] => job_status_store' = job_status_store]_vars

C34_Witness ==
    \E t \in TaskIds :
        /\ tasks[t].pc = "crashed"
        /\ tasks[t].id \notin Present
        /\ \E k \in Present : job_status_store[k].status = "completed"

\* ------------------------------------------- refinements of a writer session
\* job 1 is a WriterSession whose initial generation has ended, with materials
\* (here numbered 0) and the agent stored, or failed with neither; its task is
\* over and no other is in flight
RefineInit ==
    /\ \E out \in WriterOutcomes :
          LET rec == MarkRunning(NewRecord("writer_session", NoId, <<>>)) IN
          job_status_store =
             (1 :> IF out.kind = "ok" THEN WriterCompleted(rec, 0)
                   ELSE IF out.kind = "none"
                   THEN FailedUpdate(rec, "Failed to generate materials")
                   ELSE FailedUpdate(rec, out.msg))
    /\ nextId = 1
    /\ tasks = << >>
    /\ NotCalled

\* refine requests for it, at any moment, and the steps of their runners
RefineNext ==
    \/ refine_writer_materials
    \/ \E t \in TaskIds : RefineStart(t)
    \/ \E t \in TaskIds : RefineReturn(t)

RefineSpec == RefineInit /\ [][RefineNext]_vars

\* the refinement runners dispatched for session id, numbered in the order of
\* their requests
Refinements(id) ==
    { t \in TaskIds : tasks[t].fn = "run_writer_refinement_task" /\ tasks[t].id = id }

\* C32: when the refinement runners of two refine requests for a session have
\* both ended and the later request's runner has stored materials, the session
\* holds the materials of the later request; and the session is not completed
\* while one of its refinement runners is between its start and its end
C32_NoLostUpdate ==
    \A id \in Present :
        /\ \A t1, t2 \in Refinements(id) :
              (/\ t1 < t2
               /\ tasks[t1].pc = "done"
               /\ tasks[t2].pc = "done"
               /\ tasks[t2].raised = None)
              => job_status_store[id].materials = <<t2>>
        /\ job_status_store[id].status = "completed"
              => \A t \in Refinements(id) : tasks[t].pc # "await_writer"

\* --------------------------------------- refine requests and their answers
\* refine_writer_materials(session_id), call holding the answer
Refine ==
    \E id \in Ids :
        IF id \notin DOMAIN job_status_store
        THEN /\ call' = Answer("refine_writer_materials", id, 404)
             /\ UNCHANGED <<registry, PLAYWRIGHT_AVAILABLE, jobs_in, dicts>>
        ELSE IF ~RefineAllowed(job_status_store[id])
        THEN /\ call' = Answer("refine_writer_materials", id, 400)
             /\ UNCHANGED <<registry, PLAYWRIGHT_AVAILABLE, jobs_in, dicts>>
        ELSE /\ CanDispatch(NewTask("run_writer_refinement_task", id, <<>>))
             /\ job_status_store' = [job_status_store EXCEPT ![id] = ResetPending(@)]
             /\ tasks' = Append(tasks, NewTask("run_writer_refinement_task", id, <<>>))
             /\ call' = Answer("refine_writer_materials", id, 200)
             /\ UNCHANGED <<nextId, PLAYWRIGHT_AVAILABLE, jobs_in, dicts>>

\* job 1 is a SearchOnly job that has ended, its task over
SessionInit ==
    /\ \E n \in 0..1 : \E jobs \in JobLists(n) :
          job_status_store =
             (1 :> SearchCompleted(MarkRunning(NewRecord("job_search", NoId, <<>>)),
                      IF jobs = <<>> THEN FailureResult("No jobs found")
                      ELSE SearchOnlyResult(jobs_with_scores(jobs))))
    /\ nextId = 1
    /\ tasks = << >>
    /\ NotCalled

\* writer sessions beside it, their runners, and refine requests for any id
SessionNext ==
    \/ start_writer_session
    \/ Refine
    \/ \E t \in TaskIds : WriterInitStart(t)
    \/ \E t \in TaskIds : WriterInitReturn(t)
    \/ \E t \in TaskIds : RefineStart(t)
    \/ \E t \in TaskIds : RefineReturn(t)

SessionSpec == SessionInit /\ [][SessionNext]_vars

\* C37: a refine request for an id that is not in the registry answers 404, one
\* for a job that is not a writer session answers 400, and either leaves the
\* registry and the dispatched tasks as they were; a refinement runner that starts
\* on a session without a stored agent and conversation session ends it failed
\* with "Session not initialized properly" and has made no Runner.run invocation
C37_RefineRejected ==
    [][\A id \in Ids :
          /\ (/\ call' # call
              /\ Answered("refine_writer_materials", id)'
              /\ (id \notin Present \/ job_status_store[id].type # "writer_session"))
             => /\ call'.returned = <<IF id \notin Present THEN 404 ELSE 400>>
                /\ job_status_store' = job_status_store
                /\ tasks' = tasks
          /\ \A t \in Refinements(id) :
                (/\ tasks[t].pc = "queued"
                 /\ tasks'[t] # tasks[t]
                 /\ id \in Present
                 /\ ~job_status_store[id].agent)
                => /\ tasks'[t].pc = "done"
                   /\ tasks'[t].calls = <<>>
                   /\ job_status_store'[id].status = "failed"
                   /\ job_status_store'[id].error = "Session not initialized properly"]_vars

C37_Witness ==
    /\ Answered("refine_writer_materials", 1)
    /\ call.returned = <<400>>
    /\ \E t \in Refinements(2) :
          /\ tasks[t].pc = "done"
          /\ tasks[t].calls = <<>>
          /\ tasks[t].raised = "Session not initialized properly"
    /\ job_status_store[2].status = "failed"

\* ------------------------------------------------ claims on verified links
\* C36: the link of an item that enrich_jobs_with_urls has marked
\* url_verified = True is a link for which is_valid_job_url returns True
C36_VerifiedIsAccepted ==
    \A job \in 1..Len(jobs_in) :
        dicts[job].url_verified = <<TRUE>> => is_valid_job_url(dicts[job].url)

\* ------------------------------------------- a second pass over the output
\* enrich_jobs_with_urls called again with the list its first call returned: the
\* dictionaries are those the first call updated, in the order it returned them
Again ==
    /\ call.pc = "returned"
    /\ "pass" \notin DOMAIN call
    /\ jobs_in' = call.returned
    /\ call' = ("pass" :> 2) @@ [NewCall("called") EXCEPT !.entry = dicts]
    /\ UNCHANGED <<registry, PLAYWRIGHT_AVAILABLE, dicts>>

AgainNext ==
    \/ enrich_jobs_with_urls
    \/ Launch
    \/ Attempt
    \/ NewPage
    \/ Resolve
    \/ Sleep
    \/ Again

AgainSpec == EnrichInit /\ [][AgainNext]_vars

SecondPass == "pass" \in DOMAIN call

\* C38: in a second call on the output of the first no item's link changes: an
\* item that has the sentinel is queued again, no page is opened or navigated
\* for it and it keeps the sentinel, and an item accepted on entry keeps all
\* its fields
C38_SecondPassChangesNothing ==
    SecondPass =>
        \A job \in 1..Len(jobs_in) :
            /\ dicts[job].url = call.entry[job].url
            /\ call.entry[job].url = URL_NOT_AVAILABLE
                  => /\ Count("new_page", job) = 0
                     /\ Count("goto", job) = 0
                     /\ (PLAYWRIGHT_AVAILABLE /\ call.pc # "called") => InQueue(job)
            /\ AcceptedOnEntry(job) => dicts[job] = call.entry[job]

====
